---- MODULE Spec2Model ----
(***************************************************************************)
(* Leaflet.timeline (nukaboy fork): L.Timeline, the time-indexed feature   *)
(* layer, and L.TimelineSliderControl, the range-slider controller, as     *)
(* written in src/src/TimelineSliderControl.ts.                            *)
(*                                                                         *)
(* Every handler of the source is synchronous, so each action below is one *)
(* whole call.  Times are numeric timestamps; for those                    *)
(* `new Date(n).getTime()` and the `typeof time === "number"` branch       *)
(* return n itself.  Infinity and -Infinity are the integers Inf and       *)
(* NegInf, which lie outside every time the model uses, and `undefined`    *)
(* (a missing option or a missing property) is Undef.                      *)
(*                                                                         *)
(* The interval tree (diesal), the layer group (Leaflet) and the slider    *)
(* widget (noUiSlider) are libraries: the model keeps of them only what    *)
(* the calls of this source rely on.  overlap(a, b) yields the features of *)
(* the entries that meet the closed interval [a, b]; getLayers() lists the *)
(* layers in the order they were added, each written as the feature object *)
(* it is bound to, and addData(feature) adds one layer bound to that       *)
(* object; the widget stores the range, the handle values and the pips it  *)
(* is given, and the 'update' events it fires are the action SliderUpdate. *)
(***************************************************************************)
EXTENDS Integers, Sequences, FiniteSets, TLC

VARIABLES
    timeline,   \* [index id -> L.Timeline object]
    control,    \* the L.TimelineSliderControl object
    slider,     \* the noUiSlider widget of the control (exists only once mounted)
    last        \* history: the last call and the operations it performed

vars == <<timeline, control, slider, last>>

\* ---------------------------------------------------------------- bounds
MaxTime == 2
MaxData == 2

Times == 0 .. MaxTime

\* ------------------------------------------------------------- constants
Inf == 99
NegInf == 0 - Inf
Undef == 0 - 1

\* ----------------------------------------------------------------- helpers
Min2(a, b) == IF a < b THEN a ELSE b
Max2(a, b) == IF a > b THEN a ELSE b

Range(s) == {s[i] : i \in 1 .. Len(s)}

\* JavaScript `a || b` on an optional number: undefined and 0 are falsy.
JsOr(a, b) == IF a = Undef \/ a = 0 THEN b ELSE a

\* Array.prototype.splice(j, 1)
Splice(s, j) == [k \in 1 .. (Len(s) - 1) |-> IF k < j THEN s[k] ELSE s[k + 1]]

\* Array.prototype.indexOf, 1-based, 0 when absent
RECURSIVE IndexFrom(_, _, _)
IndexFrom(s, x, k) ==
    IF k > Len(s) THEN 0
    ELSE IF s[k] = x THEN k
    ELSE IndexFrom(s, x, k + 1)

IndexOf(s, x) == IndexFrom(s, x, 1)

\* Array.prototype.sort((a, b) => a - b)
RECURSIVE InsertSorted(_, _)
InsertSorted(s, x) ==
    IF s = <<>> THEN <<x>>
    ELSE IF x < Head(s) THEN <<x>> \o s
    ELSE <<Head(s)>> \o InsertSorted(Tail(s), x)

RECURSIVE SortAsc(_)
SortAsc(s) == IF s = <<>> THEN <<>> ELSE InsertSorted(SortAsc(Tail(s)), Head(s))

\* Number of occurrences of x in the sequence s
RECURSIVE Count(_, _)
Count(s, x) ==
    IF s = <<>> THEN 0
    ELSE (IF Head(s) = x THEN 1 ELSE 0) + Count(Tail(s), x)

\* ------------------------------------------------------------- L.Timeline

\* A GeoJSON feature object: `id` is its reference identity, start/end are
\* its properties (Undef when the property is missing).
PropValues == Times \cup {Undef}

FeatureObjects(n) ==
    {f \in [id : 1 .. n, start : PropValues, end : PropValues] :
        (f.start = Undef \/ f.end = Undef) => (f.start \in {Undef, 0} /\ f.end \in {Undef, 0})}

\* One object has one set of properties.
SameObjectSameProps(d) ==
    \A i, j \in 1 .. Len(d) : d[i].id = d[j].id => d[i] = d[j]

\* Object ids are handed out in order of first appearance.
IdsInOrder(d) ==
    \A i \in 1 .. Len(d) :
        d[i].id <= 1 + Cardinality({d[j].id : j \in 1 .. (i - 1)})

\* Collections are listed once per reordering: by start, then by end.
ListedInOrder(d) ==
    \A i \in 1 .. (Len(d) - 1) :
        \/ d[i].start < d[i + 1].start
        \/ d[i].start = d[i + 1].start /\ d[i].end <= d[i + 1].end

Collections(n) ==
    UNION {{d \in [1 .. k -> FeatureObjects(n)] :
               SameObjectSameProps(d) /\ IdsInOrder(d) /\ ListedInOrder(d)} :
              k \in 0 .. n}

_getInterval(feature) ==
    IF feature.start # Undef /\ feature.end # Undef
    THEN [ok |-> TRUE, start |-> feature.start, end |-> feature.end]
    ELSE [ok |-> FALSE, start |-> 0, end |-> 0]

\* IntervalTree.overlap: the features of the entries that intersect the
\* closed query interval.
Overlap(ranges, qs, qe) ==
    LET hit(r) == r.start <= qe /\ r.end >= qs
        hits == SelectSeq(ranges, hit)
    IN  [k \in 1 .. Len(hits) |-> hits[k].feature]

RECURSIVE ProcessFeatures(_, _)
\* Faulty variant: indexes every feature, a missing property counting as 0.
ProcessFeaturesSkipNone(features, acc) ==
    IF features = <<>> THEN acc
    ELSE LET feature == Head(features)
             s == IF feature.start = Undef THEN 0 ELSE feature.start
             e == IF feature.end = Undef THEN 0 ELSE feature.end
         IN  ProcessFeatures(Tail(features),
                 [ranges |-> Append(acc.ranges, [start |-> s, end |-> e, feature |-> feature.id]),
                  times  |-> acc.times \o <<s, e>>,
                  start  |-> Min2(acc.start, s),
                  end    |-> Max2(acc.end, e)])

\* The forEach of _process: insert, push both endpoints, widen min/max.
ProcessFeatures(features, acc) ==
    IF features = <<>> THEN acc
    ELSE LET feature == Head(features)
             interval == _getInterval(feature)
         IN  IF ~interval.ok
             THEN ProcessFeatures(Tail(features), acc)
             ELSE ProcessFeatures(Tail(features),
                    [ranges |-> Append(acc.ranges,
                                  [start |-> interval.start, end |-> interval.end,
                                   feature |-> feature.id]),
                     times  |-> acc.times \o <<interval.start, interval.end>>,
                     start  |-> Min2(acc.start, interval.start),
                     end    |-> Max2(acc.end, interval.end)])

RECURSIVE DedupFrom(_, _, _)
\* Faulty variant: keeps repeated values.
DedupKeepAll(sorted, i, newList) ==
    IF i > Len(sorted) THEN newList
    ELSE DedupFrom(sorted, i + 1, IF i = 1 THEN newList ELSE Append(newList, sorted[i]))

\* The reduce of _process that removes repeated neighbours of a sorted list.
DedupFrom(sorted, i, newList) ==
    IF i > Len(sorted) THEN newList
    ELSE IF i = 1 THEN DedupFrom(sorted, i + 1, newList)
    ELSE IF newList[Len(newList)] # sorted[i]
         THEN DedupFrom(sorted, i + 1, Append(newList, sorted[i]))
         ELSE DedupFrom(sorted, i + 1, newList)

\* The bounds of the index at the end of the forEach of _process.
ProcessStart(optStart, computed) == JsOr(optStart, computed)
ProcessEnd(optEnd, computed) == JsOr(optEnd, computed)

\* initialize + _process: the index built from a feature collection.
NewTimeline(geojson, options) ==
    LET acc == ProcessFeatures(geojson,
                   [ranges |-> <<>>, times |-> <<>>, start |-> Inf, end |-> NegInf])
        start == ProcessStart(options.start, acc.start)
        end == ProcessEnd(options.end, acc.end)
        times == IF Len(acc.times) = 0 THEN <<>>
                 ELSE LET sorted == SortAsc(acc.times)
                      IN  DedupFrom(sorted, 1, <<sorted[1]>>)
    IN  [geojson   |-> geojson,
         options   |-> options,
         ranges    |-> acc.ranges,
         times     |-> times,
         start     |-> start,
         end       |-> end,
         timeStart |-> start,
         timeEnd   |-> end,
         layers    |-> <<>>]

\* The matching loop of updateDisplayedLayers: walks the displayed layers,
\* splicing each matched feature out of `features`; yields the layers that
\* stay, the layers to remove and the features left to add.
\* Faulty variant: a matched feature is not taken out of `features`.
RECURSIVE MatchLayersNoSplice(_, _, _, _, _)
MatchLayersNoSplice(layers, k, features, kept, layersToRemove) ==
    IF k > Len(layers)
    THEN [kept |-> kept, layersToRemove |-> layersToRemove, features |-> features]
    ELSE IF IndexOf(features, layers[k]) # 0
         THEN MatchLayersNoSplice(layers, k + 1, features,
                                  Append(kept, layers[k]), layersToRemove)
         ELSE MatchLayersNoSplice(layers, k + 1, features,
                                  kept, Append(layersToRemove, layers[k]))

RECURSIVE MatchLayers(_, _, _, _, _)
MatchLayers(layers, k, features, kept, layersToRemove) ==
    IF k > Len(layers)
    THEN [kept |-> kept, layersToRemove |-> layersToRemove, features |-> features]
    ELSE LET j == IndexOf(features, layers[k])
         IN  IF j # 0
             THEN MatchLayers(layers, k + 1, Splice(features, j),
                              Append(kept, layers[k]), layersToRemove)
             ELSE MatchLayers(layers, k + 1, features,
                              kept, Append(layersToRemove, layers[k]))

Event(ev, i, f, shown) == [ev |-> ev, index |-> i, feature |-> f, shown |-> shown]

\* Faulty variants: one never removes a layer, the other clears and redraws.
UpdateNoRemove(i, t) ==
    LET features == Overlap(t.ranges, t.timeStart, t.timeEnd)
        m == MatchLayers(t.layers, 1, features, <<>>, <<>>)
    IN  [t   |-> [t EXCEPT !.layers = t.layers \o m.features],
         log |-> [k \in 1 .. Len(m.features) |-> Event("add", i, m.features[k], <<>>)]]

UpdateRedrawAll(i, t) ==
    LET features == Overlap(t.ranges, t.timeStart, t.timeEnd)
    IN  [t   |-> [t EXCEPT !.layers = features],
         log |-> [k \in 1 .. Len(t.layers) |-> Event("remove", i, t.layers[k], <<>>)]
                 \o [k \in 1 .. Len(features) |-> Event("add", i, features[k], <<>>)]]

\* updateDisplayedLayers on the index object t (index id i): the new object
\* and the removeLayer/addData operations in the order they are made.
updateDisplayedLayers(i, t) ==
    LET features == Overlap(t.ranges, t.timeStart, t.timeEnd)
        m == MatchLayers(t.layers, 1, features, <<>>, <<>>)
    IN  [t   |-> [t EXCEPT !.layers = m.kept \o m.features],
         log |-> [k \in 1 .. Len(m.layersToRemove) |->
                      Event("remove", i, m.layersToRemove[k], <<>>)]
                 \o [k \in 1 .. Len(m.features) |-> Event("add", i, m.features[k], <<>>)]]

\* Faulty variant: the eager draw clears the layer and draws it again.
SetTimeThenRedraw(i, t1) ==
    LET u == IF t1.options.drawOnSetTime
             THEN UpdateRedrawAll(i, t1)
             ELSE [t |-> t1, log |-> <<>>]
    IN  [t   |-> u.t,
         log |-> Append(u.log, Event("change", i, 0, u.t.layers))]

\* What setStartTime(time) and setEndTime(time) do once the bound is
\* assigned: the new index object and the log of the call, ending with the
\* "change" notification (which records what is displayed when it fires).
SetTimeThen(i, t1) ==
    LET u == IF t1.options.drawOnSetTime
             THEN updateDisplayedLayers(i, t1)
             ELSE [t |-> t1, log |-> <<>>]
    IN  [t   |-> u.t,
         log |-> Append(u.log, Event("change", i, 0, u.t.layers))]

\* Faulty variant: moves both bounds of the selection.
setStartTimeBoth(i, t, time) == SetTimeThen(i, [t EXCEPT !.timeStart = time, !.timeEnd = time])

setStartTime(i, t, time) == SetTimeThen(i, [t EXCEPT !.timeStart = time])

\* Faulty variant: fires "change" only when it draws.
setEndTimeNoFire(i, t, time) ==
    LET t1 == [t EXCEPT !.timeEnd = time]
    IN  IF t1.options.drawOnSetTime
        THEN SetTimeThen(i, t1)
        ELSE [t |-> t1, log |-> <<>>]

setEndTime(i, t, time) == SetTimeThen(i, [t EXCEPT !.timeEnd = time])

\* -------------------------------------------------- L.TimelineSliderControl

\* initialize(options)
NewControl(options) ==
    [options   |-> options,
     timelines |-> <<>>,
     start     |-> JsOr(options.start, 0),
     end       |-> JsOr(options.end, 0),
     timeStart |-> Undef,
     timeEnd   |-> Undef,
     mounted   |-> FALSE,
     dragging  |-> TRUE]

\* The widget before S.create has run: this._timeSlider is undefined.
NoSlider ==
    [exists |-> FALSE, min |-> 0, max |-> 0, values |-> <<0, 0>>,
     pips |-> <<>>, listeners |-> {}]

\* _getTimes: the registered indexes' times within [start, end], sorted and
\* de-duplicated by the reduce over neighbours.
RECURSIVE GatherTimes(_, _, _)
GatherTimes(tls, c, timelines) ==
    IF timelines = <<>> THEN <<>>
    ELSE LET inRange(time) == time >= c.start /\ time <= c.end
         IN  SelectSeq(tls[Head(timelines)].times, inRange)
                 \o GatherTimes(tls, c, Tail(timelines))

RECURSIVE DedupNeighbours(_, _, _)
DedupNeighbours(times, k, dedupedTimes) ==
    IF k > Len(times) THEN dedupedTimes
    ELSE DedupNeighbours(times, k + 1,
             IF times[k - 1] # times[k] THEN Append(dedupedTimes, times[k])
             ELSE dedupedTimes)

\* Faulty variant: the gathered times are not sorted before the reduce.
GetTimesUnsorted(tls, c) ==
    LET times == GatherTimes(tls, c, c.timelines)
    IN  IF Len(times) # 0
        THEN DedupNeighbours(times, 2, <<times[1]>>)
        ELSE times

_getTimes(tls, c) ==
    LET times == GatherTimes(tls, c, c.timelines)
    IN  IF Len(times) # 0
        THEN LET sorted == SortAsc(times)
             IN  DedupNeighbours(sorted, 2, <<sorted[1]>>)
        ELSE times

\* Faulty variant: a forward query on a listed time returns that time.
RECURSIVE NearestStalls(_, _, _, _, _, _)
NearestStalls(times, i, findTime, mode, retNext, lastTime) ==
    IF i > Len(times) THEN lastTime
    ELSE LET time == times[i]
         IN  IF time >= findTime
             THEN IF mode = 0 - 1 THEN lastTime ELSE time
             ELSE NearestStalls(times, i + 1, findTime, mode, FALSE, time)

\* Faulty variant: a backward query on a listed time returns that time.
RECURSIVE NearestAtOrBefore(_, _, _, _, _, _)
NearestAtOrBefore(times, i, findTime, mode, retNext, lastTime) ==
    IF i > Len(times) THEN lastTime
    ELSE LET time == times[i]
         IN  IF retNext THEN time
             ELSE IF time >= findTime
             THEN IF mode = 0 - 1 THEN (IF time = findTime THEN time ELSE lastTime)
                  ELSE IF time = findTime
                       THEN NearestAtOrBefore(times, i + 1, findTime, mode, TRUE, time)
                       ELSE time
             ELSE NearestAtOrBefore(times, i + 1, findTime, mode, FALSE, time)

\* The loop of _nearestEventTime over times[1], times[2], ... of the source,
\* which are times[2], times[3], ... here.
RECURSIVE NearestFrom(_, _, _, _, _, _)
NearestFrom(times, i, findTime, mode, retNext, lastTime) ==
    IF i > Len(times) THEN lastTime
    ELSE LET time == times[i]
         IN  IF retNext THEN time
             ELSE IF time >= findTime
             THEN IF mode = 0 - 1 THEN lastTime
                  ELSE IF time = findTime
                       THEN NearestFrom(times, i + 1, findTime, mode, TRUE, time)
                       ELSE time
             ELSE NearestFrom(times, i + 1, findTime, mode, FALSE, time)

\* _nearestEventTime(findTime, mode); times[0] of an empty list is undefined.
_nearestEventTime(st, findTime, mode) ==
    LET times == _getTimes(st.tls, st.c)
    IN  NearestFrom(times, 2, findTime, mode, FALSE,
                    IF times = <<>> THEN Undef ELSE times[1])

\* The forEach of _sliderChanged that calls setStartTime (which = "start")
\* or setEndTime (which = "end") on every registered index, in order.
RECURSIVE PushToTimelines(_, _, _, _)
PushToTimelines(tls, timelines, which, time) ==
    IF timelines = <<>> THEN [tls |-> tls, log |-> <<>>]
    ELSE LET i == Head(timelines)
             r == IF which = "start" THEN setStartTime(i, tls[i], time)
                  ELSE setEndTime(i, tls[i], time)
             rest == PushToTimelines([tls EXCEPT ![i] = r.t], Tail(timelines), which, time)
         IN  [tls |-> rest.tls, log |-> r.log \o rest.log]

\* Faulty variant: a programmatic "change" is deferred like a movement.
SliderChangedDeferred(st, type, valueMin, valueMax) ==
    LET c1 == [st.c EXCEPT !.timeStart = valueMin, !.timeEnd = valueMax]
    IN  IF ~c1.options.waitToUpdateMap
        THEN LET a == PushToTimelines(st.tls, c1.timelines, "start", valueMin)
                 b == PushToTimelines(a.tls, c1.timelines, "end", valueMax)
             IN  [st EXCEPT !.c = c1, !.tls = b.tls, !.log = st.log \o a.log \o b.log]
        ELSE [st EXCEPT !.c = c1]

\* _sliderChanged(e): st is the whole state [tls, c, s, log, error].
_sliderChanged(st, type, valueMin, valueMax) ==
    LET c1 == [st.c EXCEPT !.timeStart = valueMin, !.timeEnd = valueMax]
    IN  IF ~c1.options.waitToUpdateMap \/ type = "change"
        THEN LET a == PushToTimelines(st.tls, c1.timelines, "start", valueMin)
                 b == PushToTimelines(a.tls, c1.timelines, "end", valueMax)
             IN  [st EXCEPT !.c = c1, !.tls = b.tls, !.log = st.log \o a.log \o b.log]
        ELSE [st EXCEPT !.c = c1]

\* setTime(timeStart, timeEnd)
setTime(st, timeStart, timeEnd) ==
    LET st1 == IF st.s.exists
               THEN [st EXCEPT !.s.values = <<timeStart, timeEnd>>]
               ELSE st
    IN  _sliderChanged(st1, "change", timeStart, timeEnd)

\* The minimum start and maximum end over the registered indexes.
RECURSIVE MinStart(_, _, _)
MinStart(tls, timelines, min) ==
    IF timelines = <<>> THEN min
    ELSE MinStart(tls, Tail(timelines),
                  IF tls[Head(timelines)].start < min THEN tls[Head(timelines)].start ELSE min)

RECURSIVE MaxEnd(_, _, _)
MaxEnd(tls, timelines, max) ==
    IF timelines = <<>> THEN max
    ELSE MaxEnd(tls, Tail(timelines),
                IF tls[Head(timelines)].end > max THEN tls[Head(timelines)].end ELSE max)

\* _recalculate.  A call on this._timeSlider before the widget exists
\* throws a TypeError: the assignments made so far stay, the rest of the
\* handler is skipped (error = TRUE).
RecalculateStart(st) ==
    LET manualStart == st.c.options.start # Undef
        min == MinStart(st.tls, st.c.timelines, Inf)
    IN  IF manualStart THEN st
        ELSE LET st1 == [st EXCEPT !.c.start = min]
             IN  IF ~st.s.exists THEN [st1 EXCEPT !.error = TRUE]
                 ELSE [st1 EXCEPT !.s.min = (IF min = Inf THEN 0 ELSE min),
                                  !.s.values = <<min, st.s.values[2]>>]

RecalculateEnd(st) ==
    LET manualEnd == st.c.options.end # Undef
        max == MaxEnd(st.tls, st.c.timelines, NegInf)
    IN  IF manualEnd THEN st
        ELSE LET st1 == [st EXCEPT !.c.end = max]
             IN  IF ~st.s.exists THEN [st1 EXCEPT !.error = TRUE]
                 ELSE [st1 EXCEPT !.s.max = (IF max = NegInf THEN 0 ELSE max)]

\* Faulty variant: recomputes pinned bounds too.
RecalculateIgnorePins(st) ==
    LET min == MinStart(st.tls, st.c.timelines, Inf)
        max == MaxEnd(st.tls, st.c.timelines, NegInf)
    IN  [st EXCEPT !.c.start = min, !.c.end = max,
                   !.s.min = (IF min = Inf THEN 0 ELSE min),
                   !.s.max = (IF max = NegInf THEN 0 ELSE max),
                   !.s.values = <<min, st.s.values[2]>>,
                   !.error = ~st.s.exists]

_recalculate(st) ==
    LET st1 == RecalculateStart(st)
    IN  IF st1.error THEN st1 ELSE RecalculateEnd(st1)

\* _rebuildDataList
_rebuildDataList(st) ==
    IF ~st.s.exists THEN [st EXCEPT !.error = TRUE]
    ELSE [st EXCEPT !.s.pips = _getTimes(st.tls, st.c)]

\* _resetIfTimelinesChanged(oldTimelineCount)
_resetIfTimelinesChanged(st, oldTimelineCount) ==
    IF Len(st.c.timelines) # oldTimelineCount
    THEN LET st1 == _recalculate(st)
             st2 == IF st1.error \/ ~st1.c.options.showTicks THEN st1
                    ELSE _rebuildDataList(st1)
         IN  IF st2.error THEN st2 ELSE setTime(st2, st2.c.start, st2.c.end)
    ELSE st

RECURSIVE PushNew(_, _)
\* Faulty variant: registers without looking for the index first.
PushAll(registered, timelines) == registered \o timelines

\* The forEach of addTimelines
PushNew(registered, timelines) ==
    IF timelines = <<>> THEN registered
    ELSE PushNew(IF IndexOf(registered, Head(timelines)) = 0
                 THEN Append(registered, Head(timelines))
                 ELSE registered,
                 Tail(timelines))

\* The forEach of removeTimelines
RECURSIVE SpliceOut(_, _)
SpliceOut(registered, timelines) ==
    IF timelines = <<>> THEN registered
    ELSE LET index == IndexOf(registered, Head(timelines))
         IN  SpliceOut(IF index # 0 THEN Splice(registered, index) ELSE registered,
                       Tail(timelines))

addTimelines(st, timelines) ==
    LET timelineCount == Len(st.c.timelines)
        st1 == [st EXCEPT !.c.timelines = PushNew(st.c.timelines, timelines)]
    IN  _resetIfTimelinesChanged(st1, timelineCount)

removeTimelines(st, timelines) ==
    LET timelineCount == Len(st.c.timelines)
        st1 == [st EXCEPT !.c.timelines = SpliceOut(st.c.timelines, timelines)]
    IN  _resetIfTimelinesChanged(st1, timelineCount)

\* _makeSlider: S.create and the three listeners
_makeSlider(st) ==
    [st EXCEPT !.s = [exists    |-> TRUE,
                      min       |-> JsOr(st.c.start, 0),
                      max       |-> JsOr(st.c.end, 0),
                      values    |-> <<JsOr(st.c.start, 0), JsOr(st.c.end, 0)>>,
                      pips      |-> <<>>,
                      listeners |-> {"update", "start", "end"}]]

\* onAdd(map): _createDOM, then setTime(start, end)
onAdd(st) ==
    LET st1 == _makeSlider([st EXCEPT !.c.mounted = TRUE])
        st2 == IF st1.c.options.showTicks THEN _rebuildDataList(st1) ELSE st1
    IN  setTime(st2, st2.c.start, st2.c.end)

\* onRemove
onRemove(st) ==
    [st EXCEPT !.s.listeners = st.s.listeners \ {"change", "start", "end"},
               !.c.mounted = FALSE,
               !.c.dragging = TRUE]

\* ------------------------------------------------------------ the system

Here == [tls |-> timeline, c |-> control, s |-> slider, log |-> <<>>, error |-> FALSE]

\* What `last` records of a call: its name, the index, the indexes or the
\* selection it was given, the removeLayer/addData/"change" operations it caused in order,
\* whether it threw, whether it repeats an updateDisplayedLayers that was
\* the previous call on the same index, and the time it returned if it
\* returns one.
Call(op, index, args, st) ==
    [op |-> op, index |-> index, args |-> args, log |-> st.log, error |-> st.error,
     again |-> (op = "updateDisplayedLayers" /\ last.op = op /\ last.index = index),
     result |-> Undef]

Becomes(op, index, args, st) ==
    /\ timeline' = st.tls
    /\ control' = st.c
    /\ slider' = st.s
    /\ last' = Call(op, index, args, st)

IndexSetStartTime(i, time) ==
    LET r == setStartTime(i, timeline[i], time)
    IN  Becomes("setStartTime", i, <<>>,
                [Here EXCEPT !.tls = [timeline EXCEPT ![i] = r.t], !.log = r.log])

IndexSetEndTime(i, time) ==
    LET r == setEndTime(i, timeline[i], time)
    IN  Becomes("setEndTime", i, <<>>,
                [Here EXCEPT !.tls = [timeline EXCEPT ![i] = r.t], !.log = r.log])

IndexUpdateDisplayedLayers(i) ==
    LET r == updateDisplayedLayers(i, timeline[i])
    IN  Becomes("updateDisplayedLayers", i, <<>>,
                [Here EXCEPT !.tls = [timeline EXCEPT ![i] = r.t], !.log = r.log])

ControlAddTimelines(timelines) ==
    Becomes("addTimelines", 0, timelines, addTimelines(Here, timelines))

ControlRemoveTimelines(timelines) ==
    Becomes("removeTimelines", 0, timelines, removeTimelines(Here, timelines))

ControlSetTime(timeStart, timeEnd) ==
    Becomes("setTime", 0, <<timeStart, timeEnd>>, setTime(Here, timeStart, timeEnd))

\* control.addTo(map)
ControlOnAdd ==
    /\ ~control.mounted
    /\ Becomes("onAdd", 0, <<>>, onAdd(Here))

\* control.remove()
ControlOnRemove ==
    /\ control.mounted
    /\ Becomes("onRemove", 0, <<>>, onRemove(Here))

\* The widget fires 'update' after the user moved its handles: the listener
\* of _makeSlider calls _sliderChanged with type "change".
SliderUpdate(valueMin, valueMax) ==
    /\ slider.exists
    /\ "update" \in slider.listeners
    /\ valueMin <= valueMax
    /\ Becomes("update", 0, <<>>,
               _sliderChanged([Here EXCEPT !.s.values = <<valueMin, valueMax>>],
                              "change", valueMin, valueMax))

ControlNearestEventTime(findTime, mode) ==
    /\ UNCHANGED <<timeline, control, slider>>
    /\ last' = [Call("_nearestEventTime", 0, <<findTime, mode>>, Here)
                   EXCEPT !.result = _nearestEventTime(Here, findTime, mode)]

NoCall ==
    [op |-> "new", index |-> 0, args |-> <<>>, log |-> <<>>, error |-> FALSE,
     again |-> FALSE, result |-> Undef]

\* --- one index on its own

TimelineOptionSets ==
    {[start |-> Undef, end |-> Undef, drawOnSetTime |-> TRUE],
     [start |-> Undef, end |-> 0, drawOnSetTime |-> FALSE],
     [start |-> 1, end |-> MaxTime, drawOnSetTime |-> TRUE]}

InitIndex ==
    /\ \E d \in Collections(MaxData), o \in TimelineOptionSets :
           timeline = [i \in {1} |-> NewTimeline(d, o)]
    /\ control = NewControl([start |-> Undef, end |-> Undef, showTicks |-> TRUE,
                             waitToUpdateMap |-> FALSE])
    /\ slider = NoSlider
    /\ last = NoCall

NextIndex ==
    \/ \E i \in DOMAIN timeline, time \in Times : IndexSetStartTime(i, time)
    \/ \E i \in DOMAIN timeline, time \in Times : IndexSetEndTime(i, time)
    \/ \E i \in DOMAIN timeline : IndexUpdateDisplayedLayers(i)

SpecIndex == InitIndex /\ [][NextIndex]_vars

\* --- a control and two indexes

\* Index 1 is built from no feature or from one feature with an ordered
\* interval, index 2 from one feature that lasts the instant 1; both draw on
\* every change (the default).
OrderedFeatures == {f \in FeatureObjects(1) : f.start # Undef /\ f.end # Undef /\ f.start <= f.end}

CtlCollections == {<<>>} \cup {<<f>> : f \in OrderedFeatures}

InstantCollection == <<[id |-> 1, start |-> 1, end |-> 1]>>

DefaultTimelineOptions == [start |-> Undef, end |-> Undef, drawOnSetTime |-> TRUE]

ControlOptionSets ==
    {[start |-> p[1], end |-> p[2], showTicks |-> t, waitToUpdateMap |-> ~t] :
        p \in {<<Undef, Undef>>, <<0, MaxTime>>, <<1, Undef>>}, t \in BOOLEAN}

Init ==
    /\ \E d1 \in CtlCollections :
           timeline = [i \in {1, 2} |->
                          NewTimeline(IF i = 1 THEN d1 ELSE InstantCollection,
                                      DefaultTimelineOptions)]
    /\ \E o \in ControlOptionSets : control = NewControl(o)
    /\ slider = NoSlider
    /\ last = NoCall

\* The selections a caller or the user asks for.
Selections == {<<0, 0>>, <<MaxTime, MaxTime>>, <<1, MaxTime>>}

TimelineArgs == {<<1>>, <<2>>, <<1, 2>>, <<2, 1>>, <<1, 1>>}

Next ==
    \/ \E timelines \in TimelineArgs : ControlAddTimelines(timelines)
    \/ \E timelines \in TimelineArgs : ControlRemoveTimelines(timelines)
    \/ \E sel \in Selections : ControlSetTime(sel[1], sel[2])
    \/ ControlOnAdd
    \/ ControlOnRemove
    \/ \E sel \in Selections : SliderUpdate(sel[1], sel[2])

Spec == Init /\ [][Next]_vars

\* --- a control with pinned bounds, two indexes, and the event-time queries

MaxEvent == 4

EventTimes == 1 .. MaxEvent

FindTimes == 0 .. (MaxEvent + 1)

EventCollections ==
    {<<>>} \cup {<<[id |-> 1, start |-> p[1], end |-> p[2]]>> :
                    p \in {q \in EventTimes \X EventTimes : q[1] <= q[2]}}

EventControlOptions ==
    {[start |-> p[1], end |-> p[2], showTicks |-> FALSE, waitToUpdateMap |-> FALSE] :
        p \in {<<1, MaxEvent>>, <<2, MaxEvent>>}}

InitNearest ==
    /\ \E d1, d2 \in EventCollections :
           timeline = [i \in {1, 2} |->
                          NewTimeline(IF i = 1 THEN d1 ELSE d2, DefaultTimelineOptions)]
    /\ \E o \in EventControlOptions : control = NewControl(o)
    /\ slider = NoSlider
    /\ last = NoCall

NextNearest ==
    \/ \E timelines \in {<<1>>, <<1, 2>>} : ControlAddTimelines(timelines)
    \/ \E findTime \in FindTimes, mode \in {1, 0 - 1} :
           ControlNearestEventTime(findTime, mode)

SpecNearest == InitNearest /\ [][NextNearest]_vars

\* --- one eager index built from the features A = [0,10] and B = [5,15]

FeatureA == [id |-> 1, start |-> 0, end |-> 10]

FeatureB == [id |-> 2, start |-> 5, end |-> 15]

ScenarioTimes == {0, 4, 6, 15, 16, 20}

InitScenario ==
    /\ timeline = [i \in {1} |-> NewTimeline(<<FeatureA, FeatureB>>, DefaultTimelineOptions)]
    /\ control = NewControl([start |-> Undef, end |-> Undef, showTicks |-> TRUE,
                             waitToUpdateMap |-> FALSE])
    /\ slider = NoSlider
    /\ last = NoCall

NextScenario ==
    \/ \E time \in ScenarioTimes : IndexSetStartTime(1, time)
    \/ \E time \in ScenarioTimes : IndexSetEndTime(1, time)
    \/ IndexUpdateDisplayedLayers(1)

SpecScenario == InitScenario /\ [][NextScenario]_vars

\* ================================================================ claims

\* The entries (s, e, f) of the index t that intersect its selection, and
\* how many of them carry the feature object f.
ActiveEntries(t, qs, qe) ==
    {k \in 1 .. Len(t.ranges) : t.ranges[k].start <= qe /\ t.ranges[k].end >= qs}

ActiveCount(t, qs, qe, f) ==
    Cardinality({k \in ActiveEntries(t, qs, qe) : t.ranges[k].feature = f})

FeatureIds(t) == {t.geojson[k].id : k \in 1 .. Len(t.geojson)}

\* The displayed layers of t are bound to exactly the active features.
ShowsExactly(layers, t, qs, qe) ==
    \A f \in FeatureIds(t) \cup Range(layers) :
        Count(layers, f) = ActiveCount(t, qs, qe, f)

Synced(t) == ShowsExactly(t.layers, t, t.timeStart, t.timeEnd)

LogOf(ev) == SelectSeq(last.log, LAMBDA x : x.ev = ev)

Extractable(feature) == feature.start # Undef /\ feature.end # Undef

Extracted(t) == {t.geojson[k] : k \in {j \in 1 .. Len(t.geojson) : Extractable(t.geojson[j])}}

MinOf(S, default) == IF S = {} THEN default ELSE CHOOSE x \in S : \A y \in S : x <= y
MaxOf(S, default) == IF S = {} THEN default ELSE CHOOSE x \in S : \A y \in S : x >= y

UpdateRan ==
    \/ last.op = "updateDisplayedLayers"
    \/ last.op \in {"setStartTime", "setEndTime"} /\ timeline[last.index].options.drawOnSetTime

\* C1: right after updateDisplayedLayers has run (called directly or by an
\* eager setStartTime/setEndTime), the features of the displayed layers are
\* exactly the indexed entries (s, e, f) with s <= timeEnd and e >= timeStart,
\* counted by object identity, whatever was displayed before.
C1_DisplayedIsOverlap == UpdateRan => Synced(timeline[last.index])

C1_Witness ==
    /\ last.op = "updateDisplayedLayers"
    /\ LogOf("remove") # <<>>
    /\ LogOf("add") # <<>>
    /\ timeline[last.index].timeStart = timeline[last.index].timeEnd

\* C3: an updateDisplayedLayers that directly follows an updateDisplayedLayers
\* on the same index makes no removeLayer and no addData call and leaves the
\* displayed layers as they were.
C3_IdempotentRedisplay ==
    [][last'.again => (last'.log = <<>> /\ timeline'[last'.index].layers = timeline[last'.index].layers)]_vars

C3_Witness ==
    /\ last.again
    /\ Len(timeline[last.index].layers) = 2

\* C4: the time list of an index is strictly increasing, its values are
\* exactly the start and end values of the features whose interval was
\* extracted, it is empty only when no interval was extracted, and no call
\* changes it.
StrictlyIncreasing(s) == \A k \in 1 .. (Len(s) - 1) : s[k] < s[k + 1]

EndpointsOf(t) == {f.start : f \in Extracted(t)} \cup {f.end : f \in Extracted(t)}

TimesAreEndpoints(t) ==
    /\ StrictlyIncreasing(t.times)
    /\ Range(t.times) = EndpointsOf(t)
    /\ (t.times = <<>>) <=> (Extracted(t) = {})

C4_TimeList ==
    /\ [](\A i \in DOMAIN timeline : TimesAreEndpoints(timeline[i]))
    /\ [][\A i \in DOMAIN timeline : timeline'[i].times = timeline[i].times]_vars

C4_Witness ==
    /\ last.op = "setEndTime"
    /\ Len(timeline[1].geojson) = 2
    /\ timeline[1].geojson[1].start = timeline[1].geojson[2].end
    /\ Len(timeline[1].times) = 2

\* C5: a feature whose interval extraction fails is not indexed: it is in no
\* entry, adds no time, does not widen the computed bounds, and is never
\* displayed; the displayed layers are always bound to indexed features.
NotIndexed(t) ==
    /\ \A k \in 1 .. Len(t.ranges) :
           \E f \in Extracted(t) :
               t.ranges[k] = [start |-> f.start, end |-> f.end, feature |-> f.id]
    /\ Range(t.times) \subseteq EndpointsOf(t)
    /\ t.options.start = Undef => t.start = MinOf({f.start : f \in Extracted(t)}, Inf)
    /\ t.options.end = Undef => t.end = MaxOf({f.end : f \in Extracted(t)}, NegInf)
    /\ \A k \in 1 .. Len(t.layers) :
           /\ t.layers[k] \in {f.id : f \in Extracted(t)}
           /\ \E j \in 1 .. Len(t.ranges) : t.ranges[j].feature = t.layers[k]

C5_SkippedNeverIndexed == \A i \in DOMAIN timeline : NotIndexed(timeline[i])

C5_Witness ==
    /\ last.op = "updateDisplayedLayers"
    /\ \E k \in 1 .. Len(timeline[1].geojson) : ~Extractable(timeline[1].geojson[k])
    /\ timeline[1].layers # <<>>
    /\ timeline[1].timeStart = 0

\* C6: a pinned start (end) option, 0 included, is the index's start (end)
\* verbatim; an unpinned one is the least start (greatest end) of the indexed
\* features, or the Infinity (-Infinity) sentinel when nothing was indexed;
\* and the selection after construction is (start, end).
BoundsAsPinned(t) ==
    /\ t.start = (IF t.options.start # Undef THEN t.options.start
                  ELSE MinOf({f.start : f \in Extracted(t)}, Inf))
    /\ t.end = (IF t.options.end # Undef THEN t.options.end
                ELSE MaxOf({f.end : f \in Extracted(t)}, NegInf))

C6_IndexBounds ==
    \A i \in DOMAIN timeline :
        /\ BoundsAsPinned(timeline[i])
        /\ last.op = "new" =>
               /\ timeline[i].timeStart = timeline[i].start
               /\ timeline[i].timeEnd = timeline[i].end

\* C7: a setStartTime or setEndTime call fires exactly one "change", as the
\* last thing it does, with drawOnSetTime true or false; with eager draw the
\* layers displayed when it fires are exactly the active features.
C7_OneChangeAfterUpdate ==
    last.op \in {"setStartTime", "setEndTime"} =>
        LET t == timeline[last.index]
        IN  /\ Len(LogOf("change")) = 1
            /\ last.log[Len(last.log)].ev = "change"
            /\ t.options.drawOnSetTime =>
                   ShowsExactly(last.log[Len(last.log)].shown, t, t.timeStart, t.timeEnd)

C7_Witness ==
    /\ last.op = "setEndTime"
    /\ timeline[last.index].options.drawOnSetTime
    /\ Len(LogOf("add")) = 2

\* C8: setStartTime changes only timeStart and setEndTime only timeEnd of the
\* index (the displayed layers apart); with drawOnSetTime false neither
\* changes the displayed layers, which then change only in an explicit
\* updateDisplayedLayers.
OnlyChanges(i, field) ==
    /\ \A g \in (DOMAIN timeline[i]) \ {field, "layers"} : timeline'[i][g] = timeline[i][g]
    /\ ~timeline[i].options.drawOnSetTime => timeline'[i].layers = timeline[i].layers

C8_Frame ==
    [][/\ last'.op = "setStartTime" => OnlyChanges(last'.index, "timeStart")
       /\ last'.op = "setEndTime" => OnlyChanges(last'.index, "timeEnd")
       /\ \A i \in DOMAIN timeline :
              (~timeline[i].options.drawOnSetTime /\ timeline'[i].layers # timeline[i].layers)
                  => last'.op = "updateDisplayedLayers"]_vars

C8_Witness ==
    /\ last.op = "setStartTime"
    /\ ~timeline[last.index].options.drawOnSetTime
    /\ timeline[last.index].layers # <<>>
    /\ ~Synced(timeline[last.index])
    /\ timeline[last.index].timeEnd # timeline[last.index].end

\* C2: when the control's setTime moves an eager, registered index from the
\* selection A, with exactly overlap(A) displayed, to the selection B, the
\* removeLayer and addData calls made on that index number
\* |overlap(B) symmetric-difference overlap(A)|.
AbsDiff(a, b) == IF a < b THEN b - a ELSE a - b

RECURSIVE SymDiffOver(_, _, _, _, _, _)
SymDiffOver(F, t, as, ae, bs, be) ==
    IF F = {} THEN 0
    ELSE LET f == CHOOSE x \in F : TRUE
         IN  AbsDiff(ActiveCount(t, as, ae, f), ActiveCount(t, bs, be, f))
                 + SymDiffOver(F \ {f}, t, as, ae, bs, be)

OpsOn(log, i) == Len(SelectSeq(log, LAMBDA x : x.index = i /\ x.ev \in {"add", "remove"}))

C2_DiffMinimal ==
    [][last'.op = "setTime" =>
         \A i \in Range(control.timelines) :
             LET t == timeline[i]
             IN  (/\ t.options.drawOnSetTime
                  /\ t.timeStart = control.timeStart
                  /\ t.timeEnd = control.timeEnd
                  /\ Synced(t))
                 => OpsOn(last'.log, i) =
                        SymDiffOver(FeatureIds(t), t, t.timeStart, t.timeEnd,
                                    control'.timeStart, control'.timeEnd)]_vars

\* C9: addTimelines given only registered indexes and removeTimelines given
\* only unregistered ones change nothing and call no index; the registered
\* list never holds an index twice, and a call keeps the order of the
\* indexes that stay and puts the new ones after them.
NoDuplicates(s) == \A j, k \in 1 .. Len(s) : s[j] = s[k] => j = k

KeepsOrder(old, new) ==
    /\ \A x, y \in Range(old) \cap Range(new) :
           IndexOf(old, x) < IndexOf(old, y) => IndexOf(new, x) < IndexOf(new, y)
    /\ \A x \in Range(old) \cap Range(new), y \in Range(new) \ Range(old) :
           IndexOf(new, x) < IndexOf(new, y)

NothingHappened ==
    /\ UNCHANGED <<timeline, control, slider>>
    /\ last'.log = <<>>
    /\ ~last'.error

RegistrationStep ==
    /\ (last'.op = "addTimelines" /\ Range(last'.args) \subseteq Range(control.timelines))
           => NothingHappened
    /\ (last'.op = "removeTimelines" /\ Range(last'.args) \cap Range(control.timelines) = {})
           => NothingHappened
    /\ last'.op = "addTimelines" =>
           Range(control'.timelines) = Range(control.timelines) \cup Range(last'.args)
    /\ last'.op = "removeTimelines" =>
           Range(control'.timelines) = Range(control.timelines) \ Range(last'.args)
    /\ KeepsOrder(control.timelines, control'.timelines)

C9_Registration ==
    /\ [](NoDuplicates(control.timelines))
    /\ [][RegistrationStep]_vars

C9_Witness ==
    /\ last.op = "addTimelines"
    /\ last.args = <<1, 2>>
    /\ control.timelines = <<2, 1>>
    /\ slider.exists
    /\ last.log = <<>>
    /\ ~last.error

\* C10: once the slider widget exists, an addTimelines or removeTimelines
\* call that changes the number of registered indexes leaves the control's
\* start at the pinned start, or else at the least start of the registered
\* indexes, and its end at the pinned end, or else at their greatest end; a
\* pinned bound always has the value given at construction.
RegisteredStarts(c) == {timeline[i].start : i \in Range(c.timelines)}
RegisteredEnds(c) == {timeline[i].end : i \in Range(c.timelines)}

BoundsFollow(c) ==
    /\ c.options.start # Undef => c.start = c.options.start
    /\ c.options.end # Undef => c.end = c.options.end
    /\ (c.options.start = Undef /\ c.timelines # <<>>) =>
           c.start = MinOf(RegisteredStarts(c), Inf)
    /\ (c.options.end = Undef /\ c.timelines # <<>>) =>
           c.end = MaxOf(RegisteredEnds(c), NegInf)

PinnedKept(c) ==
    /\ c.options.start # Undef => c.start = c.options.start
    /\ c.options.end # Undef => c.end = c.options.end

RecalculatingStep ==
    /\ last'.op \in {"addTimelines", "removeTimelines"}
    /\ Len(control'.timelines) # Len(control.timelines)
    /\ slider.exists

C10_ControlBounds ==
    /\ [](PinnedKept(control))
    /\ [][RecalculatingStep => BoundsFollow(control')]_vars

C10_Witness ==
    /\ last.op = "removeTimelines"
    /\ slider.exists
    /\ control.options.start # Undef
    /\ control.options.end = Undef
    /\ control.timelines = <<1>>
    /\ control.end = timeline[1].end
    /\ timeline[1].end # timeline[2].end
    /\ control.start # timeline[1].start

\* C11: an addTimelines or removeTimelines call that changes the number of
\* registered indexes leaves the control's (timeStart, timeEnd) at the
\* selection it had before the call, and every index registered after the
\* call has that selection.
HasSelection(i, timeStart, timeEnd) ==
    /\ timeline'[i].timeStart = timeStart
    /\ timeline'[i].timeEnd = timeEnd

C11_RepushSelection ==
    [][RecalculatingStep =>
         /\ control'.timeStart = control.timeStart
         /\ control'.timeEnd = control.timeEnd
         /\ \A i \in Range(control'.timelines) :
                HasSelection(i, control.timeStart, control.timeEnd)]_vars

\* C12: when setTime(a, b) returns, the control and every registered index
\* have the selection (a, b), with waitToUpdateMap true or false; the
\* indexes were called in registration order, first for the start and then
\* for the end; and an index that is not registered is left as it was.
ChangedIndexes == [k \in 1 .. Len(LogOf("change")) |-> LogOf("change")[k].index]

SetTimeDone ==
    /\ control.timeStart = last.args[1]
    /\ control.timeEnd = last.args[2]
    /\ \A i \in Range(control.timelines) :
           /\ timeline[i].timeStart = last.args[1]
           /\ timeline[i].timeEnd = last.args[2]
    /\ ChangedIndexes = control.timelines \o control.timelines
    /\ \A k \in 1 .. Len(last.log) : last.log[k].index \in Range(control.timelines)

C12_SetTimeRegistered ==
    /\ [](last.op = "setTime" => SetTimeDone)
    /\ [][last'.op = "setTime" =>
            \A i \in (DOMAIN timeline) \ Range(control.timelines) :
                timeline'[i] = timeline[i]]_vars

C12_Witness ==
    /\ last.op = "setTime"
    /\ control.options.waitToUpdateMap
    /\ control.timelines = <<2>>
    /\ timeline[1].layers # <<>>
    /\ timeline[1].timeEnd < control.timeStart
    /\ LogOf("remove") # <<>>

\* C13: in every state _getTimes returns a strictly increasing list whose
\* values are exactly the times of the registered indexes that lie within
\* [start, end] of the control; and after an addTimelines or removeTimelines
\* call that changed the number of registered indexes, with showTicks on, the
\* pips of the slider are that list for the bounds as recalculated.
MergedTimes(tls, c) ==
    {t \in UNION {Range(tls[i].times) : i \in Range(c.timelines)} :
        c.start <= t /\ t <= c.end}

IsListOf(list, S) == StrictlyIncreasing(list) /\ Range(list) = S

C13_MergedTimes ==
    /\ [](IsListOf(_getTimes(timeline, control), MergedTimes(timeline, control)))
    /\ [][(RecalculatingStep /\ control.options.showTicks) =>
            IsListOf(slider'.pips, MergedTimes(timeline', control'))]_vars

C13_Witness ==
    /\ last.op = "addTimelines"
    /\ last.log # <<>>
    /\ control.options.showTicks
    /\ control.options.start = 1
    /\ control.timelines = <<1, 2>>
    /\ timeline[1].times = <<0, 1>>
    /\ slider.pips = <<1>>

\* The merged time list a query runs on (a query changes nothing, so it is
\* the same list before and after), and a query of the given mode on a
\* non-empty list.
QueryTimes == _getTimes(timeline, control)

Listed == Range(QueryTimes)

Asked(mode) ==
    /\ last.op = "_nearestEventTime"
    /\ last.args[2] = mode
    /\ QueryTimes # <<>>

\* C14: on a non-empty list, _nearestEventTime(findTime, 1) returns the
\* least listed time greater than findTime, for a findTime below the first
\* time, on a listed time, between two times, or at or after the last; and
\* the last listed time when none is greater.
C14_ForwardQuery ==
    Asked(1) =>
        last.result = MinOf({t \in Listed : t > last.args[1]}, MaxOf(Listed, Undef))

\* C15, as stated: on a non-empty list, _nearestEventTime(findTime, -1)
\* returns the greatest listed time at or before findTime, and the first
\* listed time when there is none.
C15_BackwardAtOrBefore ==
    Asked(0 - 1) =>
        last.result = MaxOf({t \in Listed : t <= last.args[1]}, MinOf(Listed, Undef))

\* C15, amended: on a non-empty list, _nearestEventTime(findTime, -1)
\* returns the greatest listed time strictly before findTime (so a findTime
\* equal to a listed time returns the listed time before it), and the first
\* listed time when no listed time is before findTime.
C15_BackwardBefore ==
    Asked(0 - 1) =>
        last.result = MaxOf({t \in Listed : t < last.args[1]}, MinOf(Listed, Undef))

C15_Witness ==
    /\ Asked(0 - 1)
    /\ Len(QueryTimes) >= 3
    /\ last.args[1] = QueryTimes[3]
    /\ last.result = QueryTimes[2]

\* C16: a forward query with findTime below the last listed time returns a
\* time greater than findTime; so stepping forward from findTime, each step
\* asking from the time the step before returned, is at the last listed time
\* after as many steps as the list has times, and a step from there returns
\* it again.
RECURSIVE StepForward(_, _)
StepForward(current, steps) ==
    IF steps = 0 THEN current
    ELSE StepForward(_nearestEventTime(Here, current, 1), steps - 1)

C16_ForwardAdvances ==
    Asked(1) =>
        LET lastListed == QueryTimes[Len(QueryTimes)]
        IN  /\ last.args[1] < lastListed => last.result > last.args[1]
            /\ StepForward(last.args[1], Len(QueryTimes)) = lastListed
            /\ StepForward(lastListed, 1) = lastListed

C16_Witness ==
    /\ Asked(1)
    /\ Len(QueryTimes) = 4
    /\ last.args[1] = QueryTimes[2]
    /\ last.result = QueryTimes[3]

\* The features a call added and removed, in order, and the features shown
\* when the call began (the layers now, less the added, plus the removed).
Added(log) ==
    LET adds == SelectSeq(log, LAMBDA x : x.ev = "add")
    IN  [k \in 1 .. Len(adds) |-> adds[k].feature]

Removed(log) ==
    LET removes == SelectSeq(log, LAMBDA x : x.ev = "remove")
    IN  [k \in 1 .. Len(removes) |-> removes[k].feature]

ShownBefore == (Range(timeline[1].layers) \ Range(Added(last.log))) \cup Range(Removed(last.log))

\* The steps of the scenario: the first updateDisplayedLayers after
\* construction; setStartTime(6) on the index showing A and B at [0,15];
\* setEndTime(6) right after that setStartTime(6).
InitialUpdate ==
    /\ last.op = "new"
    /\ last'.op = "updateDisplayedLayers"

FirstCall ==
    /\ Range(timeline[1].layers) = {FeatureA.id, FeatureB.id}
    /\ timeline[1].timeEnd = 15
    /\ last'.op = "setStartTime"
    /\ timeline'[1].timeStart = 6

SecondCall ==
    /\ last.op = "setStartTime"
    /\ timeline[1].timeStart = 6
    /\ timeline[1].timeEnd = 15
    /\ ShownBefore = {FeatureA.id, FeatureB.id}
    /\ last'.op = "setEndTime"
    /\ timeline'[1].timeEnd = 6

ScenarioEnds ==
    /\ Range(timeline'[1].layers) = {FeatureA.id, FeatureB.id}
    /\ Synced(timeline'[1])

BuiltEmpty ==
    last.op = "new" =>
        /\ timeline[1].layers = <<>>
        /\ timeline[1].timeStart = 0
        /\ timeline[1].timeEnd = 15

\* C17, as stated: the index built from A = [0,10] and B = [5,15] displays
\* nothing after construction, the initial updateDisplayedLayers at [0,15]
\* adds A and B, and setStartTime(6) followed by setEndTime(6) make exactly
\* one add (of B) and no remove between them, ending with A and B displayed,
\* which is overlap(6,6).
C17_ScenarioOneAdd ==
    /\ []BuiltEmpty
    /\ [][InitialUpdate => Range(Added(last'.log)) = {FeatureA.id, FeatureB.id}]_vars
    /\ [][SecondCall =>
            /\ Added(last.log \o last'.log) = <<FeatureB.id>>
            /\ Removed(last.log \o last'.log) = <<>>
            /\ ScenarioEnds]_vars

\* C17, amended: ... and setStartTime(6) followed by setEndTime(6) make no
\* add and no remove (A and B both stay displayed), ending with A and B
\* displayed, which is overlap(6,6).
C17_ScenarioNoAdd ==
    /\ []BuiltEmpty
    /\ [][InitialUpdate =>
            /\ Range(Added(last'.log)) = {FeatureA.id, FeatureB.id}
            /\ Removed(last'.log) = <<>>]_vars
    /\ [][FirstCall => (Added(last'.log) = <<>> /\ Removed(last'.log) = <<>>)]_vars
    /\ [][SecondCall =>
            /\ Added(last.log \o last'.log) = <<>>
            /\ Removed(last.log \o last'.log) = <<>>
            /\ ScenarioEnds]_vars

C17_Witness ==
    /\ last.op = "setEndTime"
    /\ timeline[1].geojson = <<FeatureA, FeatureB>>
    /\ timeline[1].timeStart = 6
    /\ timeline[1].timeEnd = 6
    /\ Len(timeline[1].layers) = 2
    /\ Len(last.log) = 1

\* C18: when a mounted control with no pinned bound recalculates with no
\* index registered, or only indexes built from empty collections, its start
\* and end are 0 afterwards and neither the range nor the handle positions
\* it gave the slider are Infinity or -Infinity; an index built from an
\* empty collection has no times and displays nothing, whatever the
\* selection.
Finite(x) == x # Inf /\ x # NegInf

EmptyDomainStep ==
    /\ RecalculatingStep
    /\ control.options.start = Undef
    /\ control.options.end = Undef
    /\ \A i \in Range(control'.timelines) : timeline[i].geojson = <<>>

SliderFedFinite(s) ==
    /\ Finite(s.min)
    /\ Finite(s.max)
    /\ Finite(s.values[1])
    /\ Finite(s.values[2])

C18_SentinelCorrection ==
    /\ [](\A i \in DOMAIN timeline :
            timeline[i].geojson = <<>> =>
                (timeline[i].times = <<>> /\ timeline[i].layers = <<>>))
    /\ [][EmptyDomainStep =>
            /\ control'.start = 0
            /\ control'.end = 0
            /\ SliderFedFinite(slider')]_vars

\* C19: with waitToUpdateMap true an 'update' event of the slider changes
\* only the control's timeStart and timeEnd: no index gets a setStartTime or
\* setEndTime call; with waitToUpdateMap false the event's values are pushed
\* to every registered index.
MovementOnly ==
    /\ control'.timeStart = slider'.values[1]
    /\ control'.timeEnd = slider'.values[2]
    /\ timeline' = timeline
    /\ last'.log = <<>>

MovementPushed ==
    /\ control'.timeStart = slider'.values[1]
    /\ control'.timeEnd = slider'.values[2]
    /\ \A i \in Range(control.timelines) :
           HasSelection(i, slider'.values[1], slider'.values[2])

C19_WaitToUpdateMap ==
    [][last'.op = "update" =>
         IF control.options.waitToUpdateMap THEN MovementOnly ELSE MovementPushed]_vars

\* C20: after onRemove no listener of the control is left on the slider, so
\* an event of the slider changes neither the control's timeStart and
\* timeEnd nor any index; and onRemove leaves map dragging enabled.
Detached == slider.exists /\ ~control.mounted

C20_Detach ==
    /\ [](last.op = "onRemove" => (slider.listeners = {} /\ control.dragging))
    /\ [][(Detached /\ last'.op = "update") =>
            /\ control'.timeStart = control.timeStart
            /\ control'.timeEnd = control.timeEnd
            /\ timeline' = timeline]_vars

\* C21: in one updateDisplayedLayers call on an index displaying `before`:
\* of each feature the layers removed number the displayed layers in excess
\* of its active entries, the features added number the active entries in
\* excess of its displayed layers, so no feature is both removed and added;
\* the layers that stay are the same layers in the same order, followed by
\* the added; and every removeLayer comes before every addData.  The step is
\* compared with the layers before it for a direct call; after a call made
\* by an eager setStartTime/setEndTime the same is read off the operations
\* it made and the layers it left.
Excess(a, b) == IF a > b THEN a - b ELSE 0

RECURSIVE IsSubsequence(_, _)
IsSubsequence(part, whole) ==
    IF part = <<>> THEN TRUE
    ELSE IF whole = <<>> THEN FALSE
    ELSE IF Head(part) = Head(whole) THEN IsSubsequence(Tail(part), Tail(whole))
    ELSE IsSubsequence(part, Tail(whole))

RemovalsFirst(log) ==
    \A j, k \in 1 .. Len(log) :
        (log[j].ev = "add" /\ log[k].ev = "remove") => k < j

DiffOf(before, t, log) ==
    LET removed == Removed(log)
        added == Added(log)
        stay == Len(before) - Len(removed)
    IN  /\ \A f \in FeatureIds(t) \cup Range(before) :
               LET shown == Count(before, f)
                   active == ActiveCount(t, t.timeStart, t.timeEnd, f)
               IN  /\ Count(removed, f) = Excess(shown, active)
                   /\ Count(added, f) = Excess(active, shown)
        /\ Len(t.layers) = stay + Len(added)
        /\ IsSubsequence(SubSeq(t.layers, 1, stay), before)

DiffMade(t, log) ==
    LET removed == Removed(log)
        added == Added(log)
    IN  /\ Range(removed) \cap Range(added) = {}
        /\ \A f \in Range(removed) \cup Range(added) :
               Count(t.layers, f) = ActiveCount(t, t.timeStart, t.timeEnd, f)
        /\ Len(added) <= Len(t.layers)
        /\ SubSeq(t.layers, Len(t.layers) - Len(added) + 1, Len(t.layers)) = added
        /\ RemovalsFirst(log)

DirectUpdateStep ==
    last'.op = "updateDisplayedLayers" =>
        DiffOf(timeline[last'.index].layers, timeline'[last'.index], last'.log)

C21_ExactDiff ==
    /\ [](UpdateRan => DiffMade(timeline[last.index], last.log))
    /\ [][DirectUpdateStep]_vars

C21_Witness ==
    /\ last.op = "updateDisplayedLayers"
    /\ Len(Removed(last.log)) = 1
    /\ Len(Added(last.log)) = 1
    /\ timeline[last.index].timeStart < timeline[last.index].timeEnd

\* C22: no call of the control throws, in particular not an addTimelines or
\* removeTimelines made before onAdd has created the slider, with the bounds
\* pinned or not; such a call registers the indexes it is given, or takes
\* them out, as it does on a mounted control.
BeforeMountStep ==
    /\ ~slider.exists
    /\ last'.op \in {"addTimelines", "removeTimelines"}

ListUpdated ==
    Range(control'.timelines) =
        IF last'.op = "addTimelines"
        THEN Range(control.timelines) \cup Range(last'.args)
        ELSE Range(control.timelines) \ Range(last'.args)

C22_LifecycleSafe ==
    /\ [](~last.error)
    /\ [][BeforeMountStep => (ListUpdated /\ ~last'.error)]_vars

====
